---- MODULE Spec2Model ----
(***************************************************************************)
(* Model of the integration record store (package integration) and of the *)
(* worker's key-install handler (engine/worker/internal/handler_key.go).  *)
(*                                                                         *)
(* Record store: the storage is a set of signed rows with an encrypted     *)
(* Config column, the association table a bag of (workflow, integration)   *)
(* pairs.  Every exported function makes exactly one call that touches the *)
(* storage (db.Delete, gorpmapping.Get/GetAll/InsertAndSign/UpdateAndSign, *)
(* db.Exec) or, for the loads, reads and never writes; so one atomic       *)
(* action per call models every interleaving of concurrent callers.        *)
(* `call` holds what the last call was given and what it returned.         *)
(***************************************************************************)
EXTENDS Integers, Sequences, FiniteSets, TLC

VARIABLES store, nextID, links, call,
          pc, req, mapBody, key, filename, result, responses, installs, phases

storeVars == <<store, nextID, links, call>>
keyVars == <<pc, req, mapBody, key, filename, result, responses, installs, phases>>
vars == <<store, nextID, links, call, pc, req, mapBody, key, filename, result,
          responses, installs, phases>>

(***************************************************************************)
(* Bounds and value sets                                                   *)
(***************************************************************************)
MaxRows == 2
MaxSecrets == 2

IDs == 1..MaxRows
Projects == {1, 2}
Workflows == {1}
Names == {"a", "b", "c"}
Tokens == {"s1", "s2"}
ProjectKeys == {"K1", "K2"}

projectOfKey(k) == IF k = "K1" THEN 1 ELSE 2

(***************************************************************************)
(* sdk.ProjectIntegration, sdk.IntegrationModel and their zero values      *)
(***************************************************************************)
NilConfig == [f \in {} |-> ""]

ZeroModel == [ID |-> 0, Sensitive |-> {}]

ZeroIntegration ==
    [ID |-> 0, ProjectID |-> 0, Name |-> "", IntegrationModelID |-> 0,
     Config |-> NilConfig, Model |-> ZeroModel]

PasswordPlaceholder == "**********"

\* The integration model every record refers to: it marks "token" sensitive.
IntegrationModels == {[ID |-> 1, Sensitive |-> {"token"}]}

MkConfig(tok) == [url |-> "u", token |-> tok]

\* The records a caller hands to InsertIntegration / UpdateIntegration.
MkIntegration(id, name, tok) ==
    [ID |-> id, ProjectID |-> 1, Name |-> name, IntegrationModelID |-> 1,
     Config |-> MkConfig(tok), Model |-> ZeroModel]

(***************************************************************************)
(* Crypto capability (gorpmapping): signature over the canonical fields,   *)
(* encryption of the Config column.                                        *)
(***************************************************************************)
Canonical(pi) == <<pi.ID, pi.ProjectID, pi.Name, pi.IntegrationModelID, pi.Config>>

Sign(pi) == [signed |-> Canonical(pi)]

NoSignature == [signed |-> <<>>]

Encrypt(cfg) == [cipher |-> cfg]

Decrypt(c) == c.cipher

\* gorpmapping.CheckSignature(pp, pp.Signature): (isValid, err).  An
\* infrastructure failure `fails` is an outcome of the signing subsystem.
CheckSignature(pp, sig, fails) ==
    [isValid |-> (~fails) /\ sig = Sign(pp.pi), err |-> fails]

(***************************************************************************)
(* Storage rows and the dbProjectIntegration wrapper                       *)
(***************************************************************************)
\* dbProjectIntegration{ProjectIntegration: pi}: the signature is unset.
Wrap(pi) == [pi |-> pi, Signature |-> NoSignature]

\* The row a wrapper is persisted as: plain columns, encrypted Config, sig.
RowOf(pp) ==
    [ID |-> pp.pi.ID, ProjectID |-> pp.pi.ProjectID, Name |-> pp.pi.Name,
     IntegrationModelID |-> pp.pi.IntegrationModelID,
     Cipher |-> Encrypt(pp.pi.Config), Signature |-> pp.Signature]

\* The wrapper a row is mapped to; Config is readable only when decrypted.
Scan(row, decrypt) ==
    [pi |-> [ID |-> row.ID, ProjectID |-> row.ProjectID, Name |-> row.Name,
             IntegrationModelID |-> row.IntegrationModelID,
             Config |-> IF decrypt THEN Decrypt(row.Cipher) ELSE NilConfig,
             Model |-> ZeroModel],
     Signature |-> row.Signature]

\* name is unique within a project
NameTaken(db, pid, name, exceptID) ==
    \E r \in db : r.ProjectID = pid /\ r.Name = name /\ r.ID # exceptID

\* gorpmapping.InsertAndSign: assign the id, sign, write.
InsertAndSign(db, id, pp) ==
    LET withID == [pp EXCEPT !.pi.ID = id]
        signed == [withID EXCEPT !.Signature = Sign(withID.pi)]
    IN  IF NameTaken(db, pp.pi.ProjectID, pp.pi.Name, 0)
        THEN [err |-> TRUE, db |-> db, pp |-> pp]
        ELSE [err |-> FALSE, db |-> db \cup {RowOf(signed)}, pp |-> signed]

\* gorpmapping.UpdateAndSign: re-sign the full field set and replace the row
\* with the same id in one step; no row with that id is an error.
UpdateAndSign(db, pp) ==
    LET signed == [pp EXCEPT !.Signature = Sign(pp.pi)]
        old == {r \in db : r.ID = pp.pi.ID}
    IN  IF old = {} \/ NameTaken(db, pp.pi.ProjectID, pp.pi.Name, pp.pi.ID)
        THEN [err |-> TRUE, db |-> db]
        ELSE [err |-> FALSE, db |-> (db \ old) \cup {RowOf(signed)}]

\* (db.Update of the columns alone: the stored signature is left as it was)
UpdateUnsigned(db, pp) ==
    LET old == {r \in db : r.ID = pp.pi.ID}
        keep == CHOOSE r \in old : TRUE
    IN  IF old = {} \/ NameTaken(db, pp.pi.ProjectID, pp.pi.Name, pp.pi.ID)
        THEN [err |-> TRUE, db |-> db]
        ELSE [err |-> FALSE,
              db |-> (db \ old) \cup {[RowOf(pp) EXCEPT !.Signature = keep.Signature]}]

\* db.Delete(&pp): by primary key
DeleteRow(db, pp) == {r \in db : r.ID # pp.pi.ID}

(***************************************************************************)
(* Queries (gorpmapping.NewQuery(...).Args(...))                           *)
(***************************************************************************)
QueryByName(k, name) == [kind |-> "byName", key |-> k, name |-> name, id |-> 0]
QueryByID(id) == [kind |-> "byID", key |-> "", name |-> "", id |-> id]
QueryByProjectID(id) == [kind |-> "byProjectID", key |-> "", name |-> "", id |-> id]
QueryByWorkflowID(id) == [kind |-> "byWorkflowID", key |-> "", name |-> "", id |-> id]

Matches(row, q, tbl) ==
    CASE q.kind = "byName" -> row.ProjectID = projectOfKey(q.key) /\ row.Name = q.name
      [] q.kind = "byID" -> row.ID = q.id
      [] q.kind = "byProjectID" -> row.ProjectID = q.id
      [] q.kind = "byWorkflowID" -> row.ID \in IDs /\ tbl[<<q.id, row.ID>>] > 0

RECURSIVE SortByID(_)
SortByID(S) ==
    IF S = {} THEN <<>>
    ELSE LET r == CHOOSE x \in S : \A y \in S : x.ID <= y.ID
         IN  <<r>> \o SortByID(S \ {r})

\* gorpmapping.Get: (found, err) and the row scanned into pp
Get(db, tbl, q, decrypt) ==
    LET hits == {r \in db : Matches(r, q, tbl)}
    IN  IF hits = {} THEN [found |-> FALSE, pp |-> Wrap(ZeroIntegration)]
        ELSE [found |-> TRUE, pp |-> Scan(CHOOSE r \in hits : TRUE, decrypt)]

\* gorpmapping.GetAll: every matching row, scanned
GetAll(db, tbl, q, decrypt) ==
    LET rows == SortByID({r \in db : Matches(r, q, tbl)})
    IN  [i \in 1..Len(rows) |-> Scan(rows[i], decrypt)]

(***************************************************************************)
(* Model Resolver and redaction                                            *)
(***************************************************************************)
\* LoadModel(db, id, clearPassword): `unresolved` are the model ids whose
\* resolution fails in this call.
LoadModel(id, clearPassword, unresolved) ==
    LET found == {m \in IntegrationModels : m.ID = id}
    IN  IF id \in unresolved \/ found = {}
        THEN [err |-> TRUE, model |-> ZeroModel]
        ELSE [err |-> FALSE, model |-> CHOOSE m \in found : TRUE]

\* (*ProjectIntegration).Blur: blank every field the model marks sensitive
Blur(pi) ==
    [pi EXCEPT !.Config =
        [f \in DOMAIN pi.Config |->
            IF f \in pi.Model.Sensitive THEN PasswordPlaceholder ELSE pi.Config[f]]]

(***************************************************************************)
(* The last call: what it was given, what it returned, what it did        *)
(***************************************************************************)
\* What the storage, the signing subsystem and the Model Resolver do in one
\* call: dbErr (the query fails), sigFails (rows whose verification errors),
\* unresolved (model ids that do not resolve).
\* The first failure decides a call's outcome, so one failure per call covers
\* every outcome.
NoFailure == [dbErr |-> FALSE, sigFails |-> {}, unresolved |-> {}]

Envs ==
    {NoFailure, [NoFailure EXCEPT !.dbErr = TRUE], [NoFailure EXCEPT !.unresolved = {1}]}
    \cup {[NoFailure EXCEPT !.sigFails = {id}] : id \in IDs}

NoQuery == [kind |-> "", key |-> "", name |-> "", id |-> 0]

\* op, clear, q, env: the call; out, err: what it returned (out is the returned
\* record for a single load, the returned list for a batch load);
\* fetched: the rows the query returned, as scanned; decrypted: the ids of
\* the rows whose Config was decrypted; resolved: the model ids the Model
\* Resolver was asked for; w, i, pre: an association call's pair and the
\* number of rows the pair had before it.
NoCall ==
    [op |-> "", clear |-> FALSE, q |-> NoQuery, env |-> NoFailure,
     out |-> <<>>, err |-> "nil",
     fetched |-> <<>>, decrypted |-> {}, resolved |-> <<>>,
     w |-> 0, i |-> 0, pre |-> 0]

\* (a variant that asks for decryption only on a clear-text load)
WithDecryptionIfClear(clearPassword) == clearPassword

\* gorpmapping.GetOptions.WithDecryption, passed by load and loadAll whatever
\* clearPassword is
WithDecryption(clearPassword) == TRUE

\* (a variant that never blurs)
redactNever(pi, clearPassword) == pi

\* if !clearPassword { pp.Blur() }
redact(pi, clearPassword) == IF ~clearPassword THEN Blur(pi) ELSE pi

IDsOf(pps) == {pps[n].pi.ID : n \in 1..Len(pps)}

(***************************************************************************)
(* load: one record                                                        *)
(***************************************************************************)
\* (a variant of load that surfaces the signature check's verdict as its own
\* error kind, after the model is resolved and attached)
loadExposesCorrupted(db, tbl, query, clearPassword, env) ==
    LET got == Get(db, tbl, query, TRUE)
        pp == got.pp
        chk == CheckSignature(pp, pp.Signature, pp.pi.ID \in env.sigFails)
        imodel == LoadModel(pp.pi.IntegrationModelID, clearPassword, env.unresolved)
        withModel == [pp.pi EXCEPT !.Model = imodel.model]
        base == [NoCall EXCEPT !.clear = clearPassword, !.q = query, !.env = env,
                               !.out = <<ZeroIntegration>>]
        seen == [base EXCEPT !.fetched = <<pp>>, !.decrypted = {pp.pi.ID}]
        asked == [seen EXCEPT !.resolved = <<pp.pi.IntegrationModelID>>]
    IN  IF env.dbErr THEN [base EXCEPT !.err = "db"]
        ELSE IF ~got.found THEN [base EXCEPT !.err = "NotFound"]
        ELSE IF chk.err THEN [seen EXCEPT !.err = "verification"]
        ELSE IF imodel.err THEN [asked EXCEPT !.err = "model"]
        ELSE IF ~chk.isValid
             THEN [asked EXCEPT !.err = "Corrupted",
                                !.out = <<redact(withModel, clearPassword)>>]
        ELSE [asked EXCEPT !.out = <<redact(withModel, clearPassword)>>]

load(db, tbl, query, clearPassword, env) ==
    LET opt == WithDecryption(clearPassword)
        got == Get(db, tbl, query, opt)
        pp == got.pp
        chk == CheckSignature(pp, pp.Signature, pp.pi.ID \in env.sigFails)
        imodel == LoadModel(pp.pi.IntegrationModelID, clearPassword, env.unresolved)
        withModel == [pp.pi EXCEPT !.Model = imodel.model]
        base == [NoCall EXCEPT !.clear = clearPassword, !.q = query, !.env = env,
                               !.out = <<ZeroIntegration>>]
        seen == [base EXCEPT !.fetched = <<pp>>,
                             !.decrypted = IF opt THEN {pp.pi.ID} ELSE {}]
    IN  IF env.dbErr THEN [base EXCEPT !.err = "db"]
        ELSE IF ~got.found THEN [base EXCEPT !.err = "NotFound"]
        ELSE IF chk.err THEN [seen EXCEPT !.err = "verification"]
        ELSE IF ~chk.isValid THEN [seen EXCEPT !.err = "NotFound"]
        ELSE IF imodel.err
             THEN [seen EXCEPT !.err = "model",
                               !.resolved = <<pp.pi.IntegrationModelID>>]
        ELSE [seen EXCEPT !.resolved = <<pp.pi.IntegrationModelID>>,
                          !.out = <<redact(withModel, clearPassword)>>]

(***************************************************************************)
(* loadAll: every record of a query                                        *)
(***************************************************************************)
\* The loop of loadAll from index n on: integrations is the result slice so
\* far, asked the model ids resolved so far.
RECURSIVE loadAllLoop(_, _, _, _, _, _)
loadAllLoop(pp, n, integrations, asked, clearPassword, env) ==
    IF n > Len(pp) THEN [out |-> integrations, err |-> "nil", resolved |-> asked]
    ELSE LET p == pp[n]
             chk == CheckSignature(p, p.Signature, p.pi.ID \in env.sigFails)
             imodel == LoadModel(p.pi.IntegrationModelID, clearPassword, env.unresolved)
             withModel == [p.pi EXCEPT !.Model = imodel.model]
             asked2 == Append(asked, p.pi.IntegrationModelID)
         IN  IF chk.err THEN [out |-> <<>>, err |-> "verification", resolved |-> asked]
             ELSE IF ~chk.isValid
                  THEN loadAllLoop(pp, n + 1, integrations, asked, clearPassword, env)
             ELSE IF imodel.err THEN [out |-> <<>>, err |-> "model", resolved |-> asked2]
             ELSE loadAllLoop(pp, n + 1,
                              [integrations EXCEPT ![n] = redact(withModel, clearPassword)],
                              asked2, clearPassword, env)

loadAll(db, tbl, query, clearPassword, env) ==
    LET opt == WithDecryption(clearPassword)
        pp == GetAll(db, tbl, query, opt)
        integrations == [n \in 1..Len(pp) |-> ZeroIntegration]
        r == loadAllLoop(pp, 1, integrations, <<>>, clearPassword, env)
        base == [NoCall EXCEPT !.clear = clearPassword, !.q = query, !.env = env]
    IN  IF env.dbErr THEN [base EXCEPT !.err = "db"]
        ELSE [base EXCEPT !.fetched = pp,
                          !.decrypted = IF opt THEN IDsOf(pp) ELSE {},
                          !.out = r.out, !.err = r.err, !.resolved = r.resolved]

(***************************************************************************)
(* Association table: workflow_project_integration                        *)
(***************************************************************************)
Pairs == Workflows \X IDs

\* INSERT INTO workflow_project_integration ... [ON CONFLICT DO NOTHING]: the
\* pair is unique in the table, so a second row for it is a conflict.
ExecInsertLink(tbl, w, i, onConflictDoNothing) ==
    IF tbl[<<w, i>>] > 0
    THEN [err |-> ~onConflictDoNothing, tbl |-> tbl]
    ELSE [err |-> FALSE, tbl |-> [tbl EXCEPT ![<<w, i>>] = 1]]

\* DELETE FROM workflow_project_integration WHERE ...
ExecDeleteLinks(tbl, gone) == [p \in Pairs |-> IF p \in gone THEN 0 ELSE tbl[p]]

(***************************************************************************)
(* Initial state                                                           *)
(***************************************************************************)
StoreInit ==
    /\ store = {}
    /\ nextID = 1
    /\ links = [p \in Pairs |-> 0]
    /\ call = NoCall

\* No request is being served.
NoBody == [kind |-> "empty", object |-> [f \in {} |-> <<>>]]

NoSecrets == [set |-> FALSE, list |-> <<>>]

NoKey == [set |-> FALSE, Name |-> "", Value |-> ""]

NoResult == [err |-> "nil", status |-> 0, message |-> ""]

KeyInit ==
    /\ pc = "idle"
    /\ req = [keyName |-> "", body |-> NoBody, secrets |-> NoSecrets,
              readErr |-> FALSE, capability |-> [kind |-> "ok", status |-> 0]]
    /\ mapBody = NoBody.object
    /\ key = NoKey
    /\ filename = <<>>
    /\ result = NoResult
    /\ responses = <<>>
    /\ installs = <<>>
    /\ phases = <<>>

Init == StoreInit /\ KeyInit

(***************************************************************************)
(* Record store: writes                                                    *)
(***************************************************************************)
\* InsertIntegration(db, pp): *pp is the record as stored, id included
InsertIntegration ==
    /\ call = NoCall
    /\ \E name \in Names, tok \in Tokens :
        /\ nextID <= MaxRows
        /\ LET ppDb == Wrap(MkIntegration(0, name, tok))
               r == InsertAndSign(store, nextID, ppDb)
           IN  /\ store' = r.db
               /\ nextID' = IF r.err THEN nextID ELSE nextID + 1
               /\ call' = IF r.err
                          THEN [NoCall EXCEPT !.op = "InsertIntegration",
                                              !.err = "Cannot insert integration"]
                          ELSE [NoCall EXCEPT !.op = "InsertIntegration",
                                              !.out = <<r.pp.pi>>]
        /\ UNCHANGED links
        /\ UNCHANGED keyVars

\* (a variant of UpdateIntegration that updates the columns without re-signing)
UpdateIntegrationUnsigned ==
    /\ call = NoCall
    /\ \E id \in IDs, name \in Names, tok \in Tokens :
        /\ LET ppDb == Wrap(MkIntegration(id, name, tok))
               r == UpdateUnsigned(store, ppDb)
           IN  /\ store' = r.db
               /\ call' = [NoCall EXCEPT !.op = "UpdateIntegration", !.out = <<ppDb.pi>>,
                              !.err = IF r.err THEN "Cannot update integration" ELSE "nil"]
        /\ UNCHANGED <<nextID, links>>
        /\ UNCHANGED keyVars

\* UpdateIntegration(db, pp)
UpdateIntegration ==
    /\ call = NoCall
    /\ \E id \in IDs, name \in Names, tok \in Tokens :
        /\ LET ppDb == Wrap(MkIntegration(id, name, tok))
               r == UpdateAndSign(store, ppDb)
           IN  /\ store' = r.db
               /\ call' = [NoCall EXCEPT !.op = "UpdateIntegration", !.out = <<ppDb.pi>>,
                              !.err = IF r.err THEN "Cannot update integration" ELSE "nil"]
        /\ UNCHANGED <<nextID, links>>
        /\ UNCHANGED keyVars

\* DeleteIntegration(db, integration): the association rows are not touched
DeleteIntegration ==
    /\ call = NoCall
    /\ \E id \in IDs :
        /\ store' = DeleteRow(store, Wrap(MkIntegration(id, "", "")))
        /\ call' = [NoCall EXCEPT !.op = "DeleteIntegration"]
        /\ UNCHANGED <<nextID, links>>
        /\ UNCHANGED keyVars

\* A write to the storage outside the record store: the stored secret of a row
\* is replaced and its signature left as it was.
Tamper ==
    /\ call = NoCall
    /\ \E r \in store, tok \in Tokens :
        /\ Decrypt(r.Cipher).token # tok
        /\ store' = (store \ {r}) \cup
                      {[r EXCEPT !.Cipher = Encrypt([Decrypt(r.Cipher) EXCEPT !.token = tok])]}
        /\ call' = [NoCall EXCEPT !.op = "Tamper"]
        /\ UNCHANGED <<nextID, links>>
        /\ UNCHANGED keyVars

(***************************************************************************)
(* Record store: loads                                                     *)
(***************************************************************************)
LoadProjectIntegrationByName ==
    /\ call = NoCall
    /\ \E k \in ProjectKeys, name \in Names, clearPassword \in BOOLEAN, env \in Envs :
        /\ call' = [load(store, links, QueryByName(k, name), clearPassword, env)
                        EXCEPT !.op = "LoadProjectIntegrationByName"]
        /\ UNCHANGED <<store, nextID, links>>
        /\ UNCHANGED keyVars

LoadProjectIntegrationByID ==
    /\ call = NoCall
    /\ \E id \in IDs, clearPassword \in BOOLEAN, env \in Envs :
        /\ call' = [load(store, links, QueryByID(id), clearPassword, env)
                        EXCEPT !.op = "LoadProjectIntegrationByID"]
        /\ UNCHANGED <<store, nextID, links>>
        /\ UNCHANGED keyVars

LoadIntegrationsByProjectID ==
    /\ call = NoCall
    /\ \E id \in Projects, clearPassword \in BOOLEAN, env \in Envs :
        /\ call' = [loadAll(store, links, QueryByProjectID(id), clearPassword, env)
                        EXCEPT !.op = "LoadIntegrationsByProjectID"]
        /\ UNCHANGED <<store, nextID, links>>
        /\ UNCHANGED keyVars

LoadIntegrationsByWorkflowID ==
    /\ call = NoCall
    /\ \E id \in Workflows, clearPassword \in BOOLEAN, env \in Envs :
        /\ call' = [loadAll(store, links, QueryByWorkflowID(id), clearPassword, env)
                        EXCEPT !.op = "LoadIntegrationsByWorkflowID"]
        /\ UNCHANGED <<store, nextID, links>>
        /\ UNCHANGED keyVars

(***************************************************************************)
(* Association Manager                                                     *)
(***************************************************************************)
\* (a variant of AddOnWorkflow whose INSERT has no ON CONFLICT clause)
AddOnWorkflowPlainInsert ==
    /\ call = NoCall
    /\ \E w \in Workflows, i \in IDs :
        /\ LET r == ExecInsertLink(links, w, i, FALSE)
           IN  /\ links' = r.tbl
               /\ call' = [NoCall EXCEPT !.op = "AddOnWorkflow", !.w = w, !.i = i,
                              !.pre = links[<<w, i>>],
                              !.err = IF r.err THEN "db" ELSE "nil"]
        /\ UNCHANGED <<store, nextID>>
        /\ UNCHANGED keyVars

\* AddOnWorkflow(db, workflowID, projectIntegrationID)
AddOnWorkflow ==
    /\ call = NoCall
    /\ \E w \in Workflows, i \in IDs :
        /\ LET r == ExecInsertLink(links, w, i, TRUE)
           IN  /\ links' = r.tbl
               /\ call' = [NoCall EXCEPT !.op = "AddOnWorkflow", !.w = w, !.i = i,
                              !.pre = links[<<w, i>>],
                              !.err = IF r.err THEN "db" ELSE "nil"]
        /\ UNCHANGED <<store, nextID>>
        /\ UNCHANGED keyVars

\* RemoveFromWorkflow(db, workflowID, projectIntegrationID)
RemoveFromWorkflow ==
    /\ call = NoCall
    /\ \E w \in Workflows, i \in IDs :
        /\ links' = ExecDeleteLinks(links, {<<w, i>>})
        /\ call' = [NoCall EXCEPT !.op = "RemoveFromWorkflow", !.w = w, !.i = i,
                       !.pre = links[<<w, i>>]]
        /\ UNCHANGED <<store, nextID>>
        /\ UNCHANGED keyVars

\* DeleteFromWorkflow(db, workflowID)
DeleteFromWorkflow ==
    /\ call = NoCall
    /\ \E w \in Workflows :
        /\ links' = ExecDeleteLinks(links, {p \in Pairs : p[1] = w})
        /\ call' = [NoCall EXCEPT !.op = "DeleteFromWorkflow", !.w = w]
        /\ UNCHANGED <<store, nextID>>
        /\ UNCHANGED keyVars

\* The call has returned and the caller has its result: the next call starts.
Return ==
    /\ call # NoCall
    /\ call' = NoCall
    /\ UNCHANGED <<store, nextID, links>>
    /\ UNCHANGED keyVars

(***************************************************************************)
(* Specifications of the record store                                      *)
(***************************************************************************)
\* The record store with its loads, over a storage that may be tampered with.
Next ==
    \/ InsertIntegration
    \/ UpdateIntegration
    \/ DeleteIntegration
    \/ Tamper
    \/ AddOnWorkflow
    \/ RemoveFromWorkflow
    \/ DeleteFromWorkflow
    \/ LoadProjectIntegrationByName
    \/ LoadProjectIntegrationByID
    \/ LoadIntegrationsByProjectID
    \/ LoadIntegrationsByWorkflowID
    \/ Return

Spec == Init /\ [][Next]_vars

\* The writes alone, by any number of callers: no write outside them.
WriteNext ==
    \/ InsertIntegration
    \/ UpdateIntegration
    \/ DeleteIntegration
    \/ Return

WriteSpec == Init /\ [][WriteNext]_vars

(***************************************************************************)
(* Key-install handler (keyInstallHandler, keyInstall)                     *)
(*                                                                         *)
(* One request: pc is the handler's position, req the request and what it  *)
(* meets (the job's secrets, the install capability's outcome), mapBody,   *)
(* key, filename and result the handler's locals, responses what writeJSON *)
(* wrote, installs the calls made to the install capability, phases the    *)
(* phases the request went through.                                        *)
(***************************************************************************)
StatusOK == 200
StatusBadRequest == 400
StatusNotFound == 404
ErrWrongRequestStatus == 400
ErrUnknownErrorStatus == 500

KeyNames == {"k1", "k2"}

\* Destination paths, as sequences of characters.
Paths == {<<>>, <<"r", "e", "l">>, <<"r", "/", "p">>, <<"/", "a", "/", "p">>}

\* Request bodies: no byte at all, bytes that do not unmarshal into a
\* map[string]string, or a JSON object with or without a "file" string.
Bodies ==
    {NoBody, [kind |-> "malformed", object |-> NoBody.object],
     [kind |-> "json", object |-> NoBody.object]}
    \cup {[kind |-> "json", object |-> [f \in {"file"} |-> path]] : path \in Paths}

\* The job's secrets: the private keys of k1 (under two values) and k2, and a
\* secret whose name differs from a private key's by its suffix.
Variables ==
    {[Name |-> "cds.key.k1.priv", Value |-> "pem1"],
     [Name |-> "cds.key.k1.priv", Value |-> "pem2"],
     [Name |-> "cds.key.k2.priv", Value |-> "pem3"],
     [Name |-> "cds.key.k1.pub", Value |-> "pub1"]}

SeqsUpTo(S, n) == UNION {[1..m -> S] : m \in 0..n}

\* wk.currentJob.secrets: nil, or a list (possibly empty)
SecretSets ==
    {NoSecrets} \cup {[set |-> TRUE, list |-> l] : l \in SeqsUpTo(Variables, MaxSecrets)}

\* What InstallKey / InstallKeyTo return: a response, an *sdk.Error with its
\* own status, or another error.
CapabilityOutcomes ==
    {[kind |-> "ok", status |-> 0], [kind |-> "sdkError", status |-> 403],
     [kind |-> "error", status |-> 0]}

\* json.Unmarshal(body, &mapBody)
Unmarshal(body) == [err |-> body.kind = "malformed", map |-> body.object]

\* mapBody["file"]: the empty string when the field is absent
FileOf(m) == IF "file" \in DOMAIN m THEN m["file"] ELSE <<>>

\* sdk.PathIsAbs
PathIsAbs(path) == Len(path) > 0 /\ path[1] = "/"

\* for _, k := range secrets { if k.Name == "cds.key." + keyName + ".priv" ... break }
RECURSIVE FindKey(_, _, _)
FindKey(secrets, keyName, n) ==
    IF n > Len(secrets) THEN NoKey
    ELSE IF secrets[n].Name = "cds.key." \o keyName \o ".priv"
         THEN [set |-> TRUE, Name |-> secrets[n].Name, Value |-> secrets[n].Value]
         ELSE FindKey(secrets, keyName, n + 1)

\* writeJSON(w, data, status)
writeJSON(message, status) ==
    responses' = Append(responses, [status |-> status, message |-> message])

\* The handler is called with a request.
ReceiveRequest ==
    /\ pc = "idle"
    /\ \E keyName \in KeyNames, body \in Bodies, secrets \in SecretSets,
          readErr \in BOOLEAN, capability \in CapabilityOutcomes :
          req' = [keyName |-> keyName, body |-> body, secrets |-> secrets,
                  readErr |-> readErr, capability |-> capability]
    /\ pc' = "ParseRequest"
    /\ UNCHANGED <<mapBody, key, filename, result, responses, installs, phases>>
    /\ UNCHANGED storeVars

\* Read the body and unmarshal it when it is not empty.
ParseRequest ==
    /\ pc = "ParseRequest"
    /\ LET u == Unmarshal(req.body)
       IN  IF req.readErr
           THEN /\ writeJSON("read error", ErrWrongRequestStatus)
                /\ phases' = phases \o <<"ParseRequest", "Respond">>
                /\ pc' = "done"
                /\ UNCHANGED mapBody
           ELSE IF req.body.kind # "empty" /\ u.err
           THEN /\ writeJSON("unmarshal error", ErrWrongRequestStatus)
                /\ phases' = phases \o <<"ParseRequest", "Respond">>
                /\ pc' = "done"
                /\ UNCHANGED mapBody
           ELSE /\ mapBody' = IF req.body.kind # "empty" THEN u.map ELSE NoBody.object
                /\ phases' = Append(phases, "ParseRequest")
                /\ pc' = "LookupSecret"
                /\ UNCHANGED responses
    /\ UNCHANGED <<req, key, filename, result, installs>>
    /\ UNCHANGED storeVars

\* (a variant of LookupSecret that ranges over a nil secret set as over an
\* empty one)
LookupSecretNilAsEmpty ==
    /\ pc = "LookupSecret"
    /\ LET k == FindKey(req.secrets.list, req.keyName, 1)
       IN  IF ~k.set
           THEN /\ writeJSON("Key " \o req.keyName \o " not found", StatusNotFound)
                /\ phases' = phases \o <<"LookupSecret", "Respond">>
                /\ pc' = "done"
                /\ UNCHANGED key
           ELSE /\ key' = k
                /\ phases' = Append(phases, "LookupSecret")
                /\ pc' = "ChooseDestination"
                /\ UNCHANGED responses
    /\ UNCHANGED <<req, mapBody, filename, result, installs>>
    /\ UNCHANGED storeVars

\* Find the job's secret named after the key.
LookupSecret ==
    /\ pc = "LookupSecret"
    /\ LET k == FindKey(req.secrets.list, req.keyName, 1)
       IN  IF ~req.secrets.set
           THEN /\ writeJSON("Cannot find any keys for your job", StatusBadRequest)
                /\ phases' = phases \o <<"LookupSecret", "Respond">>
                /\ pc' = "done"
                /\ UNCHANGED key
           ELSE IF ~k.set
           THEN /\ writeJSON("Key " \o req.keyName \o " not found", StatusNotFound)
                /\ phases' = phases \o <<"LookupSecret", "Respond">>
                /\ pc' = "done"
                /\ UNCHANGED key
           ELSE /\ key' = k
                /\ phases' = Append(phases, "LookupSecret")
                /\ pc' = "ChooseDestination"
                /\ UNCHANGED responses
    /\ UNCHANGED <<req, mapBody, filename, result, installs>>
    /\ UNCHANGED storeVars

\* (a variant of ChooseDestination that resolves a relative path against the
\* root instead of rejecting it)
ChooseDestinationResolvesRelative ==
    /\ pc = "ChooseDestination"
    /\ LET file == FileOf(mapBody)
       IN  /\ filename' = IF file = <<>> \/ PathIsAbs(file) THEN file ELSE <<"/">> \o file
           /\ pc' = "Install"
           /\ UNCHANGED result
    /\ phases' = Append(phases, "ChooseDestination")
    /\ UNCHANGED <<req, mapBody, key, responses, installs>>
    /\ UNCHANGED storeVars

\* filename := mapBody["file"]; keyInstall up to its call of the capability:
\* the default location, an absolute path, or a relative path refused.
ChooseDestination ==
    /\ pc = "ChooseDestination"
    /\ LET file == FileOf(mapBody)
       IN  /\ filename' = file
           /\ IF file # <<>> /\ ~PathIsAbs(file)
              THEN /\ result' = [err |-> "error", status |-> 0,
                                 message |-> "unsupported relative path"]
                   /\ pc' = "Respond"
              ELSE /\ pc' = "Install"
                   /\ UNCHANGED result
    /\ phases' = Append(phases, "ChooseDestination")
    /\ UNCHANGED <<req, mapBody, key, responses, installs>>
    /\ UNCHANGED storeVars

\* keyInstall's call of the capability: wk.InstallKey(*key) or
\* wk.InstallKeyTo(*key, filename)
Install ==
    /\ pc = "Install"
    /\ installs' = Append(installs,
                      [fn |-> IF filename = <<>> THEN "InstallKey" ELSE "InstallKeyTo",
                       key |-> key, path |-> filename])
    /\ result' = CASE req.capability.kind = "ok" ->
                        [err |-> "nil", status |-> 0, message |-> "installed"]
                   [] req.capability.kind = "sdkError" ->
                        [err |-> "sdkError", status |-> req.capability.status,
                         message |-> "capability error"]
                   [] OTHER ->
                        [err |-> "error", status |-> 0, message |-> "capability error"]
    /\ phases' = Append(phases, "Install")
    /\ pc' = "Respond"
    /\ UNCHANGED <<req, mapBody, key, filename, responses>>
    /\ UNCHANGED storeVars

\* (a variant of Respond that calls the capability again after a failure)
RespondRetriesOnce ==
    /\ pc = "Respond"
    /\ IF result.err # "nil" /\ Len(installs) = 1
       THEN /\ pc' = "Install"
            /\ UNCHANGED <<responses, phases>>
       ELSE /\ writeJSON(result.message,
                         IF result.err = "nil" THEN StatusOK
                         ELSE IF result.err = "sdkError" THEN result.status
                         ELSE ErrUnknownErrorStatus)
            /\ phases' = Append(phases, "Respond")
            /\ pc' = "done"
    /\ UNCHANGED <<req, mapBody, key, filename, result, installs>>
    /\ UNCHANGED storeVars

\* The handler after keyInstall has returned: the error's own status when it
\* is an *sdk.Error, the unknown-error status for any other error, 200 and
\* the capability's response otherwise.
Respond ==
    /\ pc = "Respond"
    /\ IF result.err = "sdkError" THEN writeJSON(result.message, result.status)
       ELSE IF result.err # "nil" THEN writeJSON(result.message, ErrUnknownErrorStatus)
       ELSE writeJSON(result.message, StatusOK)
    /\ phases' = Append(phases, "Respond")
    /\ pc' = "done"
    /\ UNCHANGED <<req, mapBody, key, filename, result, installs>>
    /\ UNCHANGED storeVars

KeyNext ==
    \/ ReceiveRequest
    \/ ParseRequest
    \/ LookupSecret
    \/ ChooseDestination
    \/ Install
    \/ Respond

\* The handler runs to its end: no step of it waits on anything but the
\* capability's return.
KeySpec == Init /\ [][KeyNext]_vars /\ WF_vars(KeyNext)

(***************************************************************************)
(* Properties of the record store                                          *)
(***************************************************************************)
IsLoad == call.op \in {"LoadProjectIntegrationByName", "LoadProjectIntegrationByID"}

IsLoadAll == call.op \in {"LoadIntegrationsByProjectID", "LoadIntegrationsByWorkflowID"}

\* the signature a fetched row carries verifies against the row's fields
Verifies(pp) == pp.Signature = Sign(pp.pi)

Corrupted == {n \in 1..Len(call.fetched) : ~Verifies(call.fetched[n])}

\* no failure of the storage, the signing subsystem or the Model Resolver
NoInfrastructureFailure == call.env = NoFailure

\* C1: a batch load whose query returns N rows of which exactly one fails
\* signature verification (no verification error, every model resolves)
\* returns no error and a list of exactly N-1 records, each one of the valid
\* rows; the corrupted row contributes no entry.
C1_BatchDropsCorruptedRow ==
    (IsLoadAll /\ NoInfrastructureFailure /\ Cardinality(Corrupted) = 1)
        => /\ call.err = "nil"
           /\ Len(call.out) = Len(call.fetched) - 1
           /\ \A k \in 1..Len(call.out) :
                \E n \in 1..Len(call.fetched) :
                    /\ n \notin Corrupted
                    /\ call.out[k].ID = call.fetched[n].pi.ID

\* C2: a single load that finds a row whose signature check reports invalid
\* without an error returns NotFound, the error kind of a query that finds no
\* row, returns the zero record, and never consults the Model Resolver.
C2_TamperedIsNotFound ==
    /\ (IsLoad /\ ~call.env.dbErr /\ Len(call.fetched) = 1 /\ Corrupted # {}
           /\ call.fetched[1].pi.ID \notin call.env.sigFails)
          => /\ call.err = "NotFound"
             /\ call.out = <<ZeroIntegration>>
             /\ call.resolved = <<>>
    /\ (IsLoad /\ ~call.env.dbErr /\ call.fetched = <<>>)
          => /\ call.err = "NotFound"
             /\ call.out = <<ZeroIntegration>>

C2_Witness ==
    /\ IsLoad /\ NoInfrastructureFailure
    /\ Len(call.fetched) = 1 /\ Corrupted = {1}
    /\ call.fetched[1].pi.Config["token"] \in Tokens
    /\ call.err = "NotFound"

\* C3: a load or batch load called with clearPassword=false that returns
\* without error returns no sensitive field in clear form: every field the
\* attached model marks sensitive is blanked, whatever was stored and although
\* the rows were decrypted.
C3_SensitiveFieldsBlanked ==
    ((IsLoad \/ IsLoadAll) /\ ~call.clear /\ call.err = "nil")
        => \A k \in 1..Len(call.out) :
             \A f \in DOMAIN call.out[k].Config :
                /\ f \in call.out[k].Model.Sensitive
                      => call.out[k].Config[f] = PasswordPlaceholder
                /\ call.out[k].Config[f] \notin Tokens

C3_Witness ==
    /\ IsLoadAll /\ ~call.clear /\ call.err = "nil"
    /\ Len(call.out) = 2 /\ Corrupted = {}
    /\ \A k \in 1..2 :
          /\ call.fetched[k].pi.Config["token"] \in Tokens
          /\ call.out[k].ID = call.fetched[k].pi.ID
          /\ call.out[k].Model.Sensitive = {"token"}
          /\ call.out[k].Config["token"] = PasswordPlaceholder
          /\ call.out[k].Config["url"] = "u"

\* C4: whatever InsertIntegration, UpdateIntegration and DeleteIntegration
\* calls were made, in whatever order, every stored row carries a signature
\* that verifies against the row's current fields, and a successful update
\* leaves its own whole signed record in the storage.
C4_StoredSignaturesVerify ==
    /\ \A r \in store : Verifies(Scan(r, TRUE))
    /\ (call.op = "UpdateIntegration" /\ call.err = "nil")
          => RowOf([pi |-> call.out[1], Signature |-> Sign(call.out[1])]) \in store

C4_Witness ==
    /\ call.op = "UpdateIntegration" /\ call.err = "nil"
    /\ Cardinality(store) = MaxRows
    /\ \E r \in store : r.ID = call.out[1].ID /\ Decrypt(r.Cipher).token = "s2"
    /\ \E r \in store : r.ID # call.out[1].ID /\ Decrypt(r.Cipher).token = "s2"

C9_AddOnWorkflowIdempotent ==
    [][call'.op = "AddOnWorkflow"
         => /\ call'.err = "nil"
            /\ links'[<<call'.w, call'.i>>] = 1
            /\ \A p \in Pairs : p # <<call'.w, call'.i>> => links'[p] = links[p]]_vars

C9_Witness ==
    /\ call.op = "AddOnWorkflow" /\ call.pre = 1 /\ call.err = "nil"
    /\ links[<<call.w, call.i>>] = 1
    /\ \E p \in Pairs : p # <<call.w, call.i>> /\ links[p] = 1

(***************************************************************************)
(* Properties of the key-install handler                                   *)
(***************************************************************************)
\* the request, read from what was sent rather than from the handler's locals
BodyParses == ~req.readErr /\ req.body.kind # "malformed"

WantedName == "cds.key." \o req.keyName \o ".priv"

Holders == {n \in 1..Len(req.secrets.list) : req.secrets.list[n].Name = WantedName}

KeyPresent == req.secrets.set /\ Holders # {}

FoundKey ==
    LET n == CHOOSE m \in Holders : \A o \in Holders : m <= o
    IN  [set |-> TRUE, Name |-> WantedName, Value |-> req.secrets.list[n].Value]

Destination == IF "file" \in DOMAIN req.body.object THEN req.body.object["file"] ELSE <<>>

IsRelative(path) == path # <<>> /\ path[1] # "/"

IsAbsolute(path) == path # <<>> /\ path[1] = "/"

\* C6: when the body parses, a job with no secret set loaded gets 400 and the
\* 'cannot find any keys' message and the key is never looked up; a loaded
\* set (an empty one too) without the entry "cds.key." + keyName + ".priv"
\* gets 404 and the 'key not found' message; the capability is not called.
C6_NoSecretsOrNoKey ==
    (pc = "done" /\ BodyParses)
        => /\ ~req.secrets.set
                => /\ responses = <<[status |-> 400,
                                     message |-> "Cannot find any keys for your job"]>>
                   /\ key = NoKey
                   /\ installs = <<>>
           /\ (req.secrets.set /\ ~KeyPresent)
                => /\ responses = <<[status |-> 404,
                                     message |-> "Key " \o req.keyName \o " not found"]>>
                   /\ key = NoKey
                   /\ installs = <<>>

C6_Witness ==
    /\ pc = "done" /\ BodyParses
    /\ req.secrets.set /\ req.secrets.list = <<>>
    /\ responses[1].status = 404

\* C7: once the key is found, a relative destination makes keyInstall return
\* an error without any call of the capability; an absolute destination makes
\* it call InstallKeyTo exactly once with that path and the found key; an
\* empty destination makes it call InstallKey exactly once, and not
\* InstallKeyTo.
C7_DestinationDecidesInstall ==
    (pc \in {"Respond", "done"} /\ BodyParses /\ KeyPresent)
        => /\ IsRelative(Destination)
                => installs = <<>> /\ result.err = "error"
           /\ IsAbsolute(Destination)
                => installs = <<[fn |-> "InstallKeyTo", key |-> FoundKey,
                                 path |-> Destination]>>
           /\ Destination = <<>>
                => installs = <<[fn |-> "InstallKey", key |-> FoundKey, path |-> <<>>]>>

C7_Witness ==
    /\ pc = "done" /\ BodyParses /\ KeyPresent
    /\ Destination = <<"r", "/", "p">>
    /\ Cardinality(Holders) = 2
    /\ installs = <<>>

\* C8: the response status is 400 for a malformed body, 400 when no secrets
\* are loaded, 400 for an unsupported relative destination, 404 when the key
\* is not present, 200 on success, and the unknown-error status only for
\* failures raised by the install capability itself.
C8_StatusCodes ==
    pc = "done"
        => LET status == responses[1].status
           IN  /\ ~BodyParses => status = 400
               /\ (BodyParses /\ ~req.secrets.set) => status = 400
               /\ (BodyParses /\ req.secrets.set /\ ~KeyPresent) => status = 404
               /\ (BodyParses /\ KeyPresent /\ IsRelative(Destination)) => status = 400
               /\ (BodyParses /\ KeyPresent /\ ~IsRelative(Destination)
                     /\ req.capability.kind = "ok") => status = 200
               /\ status = ErrUnknownErrorStatus
                     => installs # <<>> /\ req.capability.kind # "ok"

PhaseIndex(p) ==
    CASE p = "ParseRequest" -> 1
      [] p = "LookupSecret" -> 2
      [] p = "ChooseDestination" -> 3
      [] p = "Install" -> 4
      [] p = "Respond" -> 5

\* what holds of a request at every step
C10_OneOrderedPass ==
    /\ \A a, b \in 1..Len(phases) : a < b => PhaseIndex(phases[a]) < PhaseIndex(phases[b])
    /\ Len(responses) <= 1
    /\ pc = "done" <=> Len(responses) = 1
    /\ pc = "done" => phases[1] = "ParseRequest" /\ phases[Len(phases)] = "Respond"
    /\ Len(installs) <= 1
    /\ installs # <<>>
          => /\ BodyParses /\ KeyPresent
             /\ installs[1].key = FoundKey
             /\ Len(SelectSeq(phases, LAMBDA p : p = "Install")) = 1

\* C10: a request goes through ParseRequest, LookupSecret, ChooseDestination,
\* Install, Respond in that order and ends: exactly one response is written on
\* every branch, the capability is called at most once, only after the body
\* has parsed, a secret set is loaded and the key is found, and never again
\* after a failure.
C10_RequestStateMachine ==
    /\ []C10_OneOrderedPass
    /\ (pc = "ParseRequest") ~> (pc = "done")

C10_Witness ==
    /\ pc = "done"
    /\ phases = <<"ParseRequest", "LookupSecret", "ChooseDestination", "Install", "Respond">>
    /\ req.capability.kind = "error"
    /\ Len(installs) = 1
    /\ responses = <<[status |-> ErrUnknownErrorStatus, message |-> "capability error"]>>

====
